---- MODULE Spec2Model ----
(***************************************************************************)
(* Model of the simulation driver of src/components/WaterEffectCanvas.tsx: *)
(* the useEffect body (initialization and first tick), the animation-frame *)
(* loop, the pointer and resize handlers, the ping-pong buffer labels and  *)
(* the effect's cleanup function.                                          *)
(*                                                                         *)
(* JavaScript runs every handler to completion, so each handler is one     *)
(* action.  Inside a handler the closure state is threaded through the     *)
(* operators addDrop, updateWaterMap, render and swapTextures as a record. *)
(*                                                                         *)
(* The contents of a height-field texture are modelled by provenance: the  *)
(* sequence of serial numbers of the write passes whose results it holds.  *)
(* A write pass reading texture r and drawing into texture w leaves in w   *)
(* the provenance of r extended by the pass's own serial number.           *)
(***************************************************************************)
EXTENDS Integers, Sequences, FiniteSets, TLC

\* ---------------------------------------------------------------- bounds
MaxTicks == 3          \* ticks executed (the first one runs inside Mount)
MaxEvents == 2         \* pointer events handled between two ticks
MaxHandled == 3        \* pointer events handled in all

\* ------------------------------------------------------ program constants
TEXTURE_WIDTH == 512
TEXTURE_HEIGHT == 512
\* radius and strength in thousandths
MOVE_RADIUS == 40
MOVE_STRENGTH == 100
DOWN_RADIUS == 50
DOWN_STRENGTH == 1000

\* damping in thousandths
DAMPING == 985
\* ripple strength in hundredths
RIPPLE_STRENGTH == 10
\* largest value of an 8-bit texture channel
ChannelMax == 255

\* side of the grid the fragment programs are evaluated on
GridN == 3

\* ------------------------------------------------------------ input sets
\* states of the window: innerWidth x innerHeight and devicePixelRatio,
\* where ratio 0 stands for a missing (falsy) value
Windows == {[inner |-> <<2, 1>>, ratio |-> 0], [inner |-> <<1, 1>>, ratio |-> 2]}
\* clientX, clientY of a mouse event
ClientPoints == {<<0, 0>>, <<1, 1>>}

\* what the WebGL implementation does during initialization
OkEnv == "ok"
FaultEnvs ==
  {"noContext", "compileVertex", "compileRender", "compileUpdate",
   "compileDrop", "linkRender", "linkUpdate", "linkDrop",
   "allocFboA", "allocFboB"}

NullH == "null"
Textures == {"textureA", "textureB"}

VARIABLES
  env,              \* behaviour of the WebGL implementation at initialization
  phase,            \* "Unmounted", "Running", "Failed", "Disposed"
  renderProgram, updateProgram, dropProgram,
  fboA, fboB,
  currentFBO, nextFBO, currentTexture, nextTexture,
  animationFrameId, \* 0 = not yet assigned
  lastMousePos, mouseMoved,
  canvas,           \* [width, height, styleW, styleH]
  listeners,        \* registered event listeners
  rafQueue,         \* ids of the scheduled animation-frame callbacks
  cleanupLog,       \* calls made by the cleanup function, in order
  content,          \* provenance of each height-field texture
  passes,           \* draw calls issued since the start of the last tick
  arrivals,         \* pointer events handled since the last tick
  drained,          \* the move events the last tick found handled:
                    \* [moves: how many, first, last: the first and the
                    \* last of them]
  textureSize,      \* allocated size of each height-field texture
  ticks,            \* invocations of loop()
  writes,           \* draw calls into a height-field texture so far
  swaps,            \* calls of swapTextures so far
  lateEvents,       \* whether an event was dispatched after the cleanup ran
  videoTexture,     \* contents of the video texture: the number of the
                    \* frame uploaded last, 0 for the empty 1x1 texture
  handled,          \* pointer events handled so far
  kernel            \* a shader evaluation: inputs and outputs of one of the
                    \* fragment programs (idle while the driver runs)

glvars == <<currentFBO, nextFBO, currentTexture, nextTexture, content,
            passes, writes, swaps, videoTexture>>
resvars == <<renderProgram, updateProgram, dropProgram, fboA, fboB>>
vars == <<env, phase, renderProgram, updateProgram, dropProgram, fboA, fboB,
          currentFBO, nextFBO, currentTexture, nextTexture, animationFrameId,
          lastMousePos, mouseMoved, canvas, listeners, rafQueue, cleanupLog,
          content, passes, arrivals, drained, textureSize, ticks, writes,
          swaps, lateEvents, videoTexture, handled, kernel>>

\* ------------------------------------------------------------- GL helpers
\* The texture attached to a framebuffer; binding the null framebuffer
\* selects the canvas's drawing buffer.
Attachment(fbo) ==
  IF fbo = "fboA" THEN "textureA"
  ELSE IF fbo = "fboB" THEN "textureB"
  ELSE "canvas"

NoPos == [x |-> <<0, 1>>, y |-> <<0, 1>>]

NoEvent == [kind |-> "none", pt |-> <<0, 0>>, rect |-> <<0, 0>>]
NoMoves == [moves |-> 0, first |-> NoEvent, last |-> NoEvent]

\* Summary of the move events of a sequence of handled events.
MovesOf(evs) ==
  LET ms == SelectSeq(evs, LAMBDA e : e.kind = "move")
  IN [moves |-> Len(ms),
      first |-> IF ms = <<>> THEN NoEvent ELSE ms[1],
      last |-> IF ms = <<>> THEN NoEvent ELSE ms[Len(ms)]]

\* The closure state a handler works on.
Closure ==
  [currentFBO |-> currentFBO, nextFBO |-> nextFBO,
   currentTexture |-> currentTexture, nextTexture |-> nextTexture,
   content |-> content, passes |-> passes, writes |-> writes,
   swaps |-> swaps, thrown |-> FALSE,
   videoTexture |-> videoTexture, videoReady |-> FALSE, frame |-> ticks + 1]

\* useProgram: getAttribLocation rejects a null program with a TypeError.
useProgram(s, program) ==
  IF s.thrown THEN s
  ELSE IF program = NullH THEN [s EXCEPT !.thrown = TRUE]
  ELSE s

\* drawQuad with the given pass bound: records the draw call and, when the
\* target is a height-field texture, stores the new contents in it.
drawQuad(s, pass) ==
  IF s.thrown THEN s
  ELSE IF pass.writes \in Textures
    THEN [s EXCEPT !.passes = Append(@, [pass EXCEPT !.serial = s.writes + 1]),
                   !.writes = @ + 1,
                   !.content = [@ EXCEPT ![pass.writes] =
                                  Append(s.content[pass.reads], s.writes + 1)]]
    ELSE [s EXCEPT !.passes = Append(@, pass)]

swapTextures_fboOnly(s) ==
  IF s.thrown THEN s
  ELSE [s EXCEPT !.currentFBO = s.nextFBO, !.nextFBO = s.currentFBO,
                 !.swaps = @ + 1]

swapTextures_texOnly(s) ==
  IF s.thrown THEN s
  ELSE [s EXCEPT !.currentTexture = s.nextTexture,
                 !.nextTexture = s.currentTexture,
                 !.swaps = @ + 1]

swapTextures(s) ==
  IF s.thrown THEN s
  ELSE [s EXCEPT !.currentFBO = s.nextFBO, !.nextFBO = s.currentFBO,
                 !.currentTexture = s.nextTexture,
                 !.nextTexture = s.currentTexture,
                 !.swaps = @ + 1]

addDrop_canvasViewport(s, pos, radius, strength, cv, prog) ==
  LET s1 == useProgram(s, prog)
      pass == [kind |-> "drop", reads |-> s1.currentTexture,
               writes |-> Attachment(s1.nextFBO),
               vp |-> <<cv.width, cv.height>>,
               center |-> pos, radius |-> radius, strength |-> strength,
               aspect |-> <<cv.width, cv.height>>, serial |-> 0,
               ready |-> FALSE, video |-> 0]
  IN swapTextures(drawQuad(s1, pass))

addDrop_noSwap(s, pos, radius, strength, cv, prog) ==
  LET s1 == useProgram(s, prog)
      pass == [kind |-> "drop", reads |-> s1.currentTexture,
               writes |-> Attachment(s1.nextFBO),
               vp |-> <<TEXTURE_WIDTH, TEXTURE_HEIGHT>>,
               center |-> pos, radius |-> radius, strength |-> strength,
               aspect |-> <<cv.width, cv.height>>, serial |-> 0,
               ready |-> FALSE, video |-> 0]
  IN drawQuad(s1, pass)

addDrop(s, pos, radius, strength, cv, prog) ==
  LET s1 == useProgram(s, prog)
      pass == [kind |-> "drop", reads |-> s1.currentTexture,
               writes |-> Attachment(s1.nextFBO),
               vp |-> <<TEXTURE_WIDTH, TEXTURE_HEIGHT>>,
               center |-> pos, radius |-> radius, strength |-> strength,
               aspect |-> <<cv.width, cv.height>>, serial |-> 0,
               ready |-> FALSE, video |-> 0]
  IN swapTextures(drawQuad(s1, pass))

updateWaterMap(s, prog) ==
  LET s1 == useProgram(s, prog)
      pass == [kind |-> "update", reads |-> s1.currentTexture,
               writes |-> Attachment(s1.nextFBO),
               vp |-> <<TEXTURE_WIDTH, TEXTURE_HEIGHT>>,
               center |-> NoPos, radius |-> 0, strength |-> 0,
               aspect |-> <<0, 0>>, serial |-> 0,
               ready |-> FALSE, video |-> 0]
  IN swapTextures(drawQuad(s1, pass))

\* texImage2D(..., video): the video texture takes the current frame.
uploadVideo(s) ==
  IF s.thrown THEN s ELSE [s EXCEPT !.videoTexture = s.frame]

render_uploadAlways(s, cv, prog) ==
  LET s1 == useProgram(s, prog)
      s2 == uploadVideo(s1)
      pass == [kind |-> "render", reads |-> s2.currentTexture,
               writes |-> "canvas",
               vp |-> <<cv.width, cv.height>>,
               center |-> NoPos, radius |-> 0, strength |-> 0,
               aspect |-> <<0, 0>>, serial |-> 0,
               ready |-> s2.videoReady, video |-> s2.videoTexture]
  IN drawQuad(s2, pass)

\* render(): video.readyState is read once, before the upload.
render(s, cv, prog) ==
  LET s1 == useProgram(s, prog)
      s2 == IF s1.videoReady THEN uploadVideo(s1) ELSE s1
      pass == [kind |-> "render", reads |-> s2.currentTexture,
               writes |-> "canvas",
               vp |-> <<cv.width, cv.height>>,
               center |-> NoPos, radius |-> 0, strength |-> 0,
               aspect |-> <<0, 0>>, serial |-> 0,
               ready |-> s2.videoReady, video |-> s2.videoTexture]
  IN drawQuad(s2, pass)

\* resize(): the canvas takes the window's size times the pixel ratio.
resize(inner, ratio) ==
  LET dpr == IF ratio = 0 THEN 1 ELSE ratio
  IN [width |-> inner[1] * dpr, height |-> inner[2] * dpr,
      styleW |-> inner[1], styleH |-> inner[2]]

\* Normalised pointer position; each coordinate is a fraction <<num, den>>.
\* The canvas is positioned at the top-left corner, so rect.left = rect.top = 0
\* and rect.width, rect.height are the style size.
PointerPos(pt, rect) ==
  [x |-> <<pt[1], rect[1]>>, y |-> <<rect[2] - pt[2], rect[2]>>]

\* canvas.getBoundingClientRect(): <<width, height>>
BoundingRect(cv) == <<cv.styleW, cv.styleH>>

loopBody_skipIdle(s, moved, pos, cv, dp, up, rp) ==
  IF moved
  THEN render(updateWaterMap(
                addDrop(s, pos, MOVE_RADIUS, MOVE_STRENGTH, cv, dp), up),
              cv, rp)
  ELSE render(s, cv, rp)

\* The body of loop() up to the requestAnimationFrame call.
loopBody(s, moved, pos, cv, dp, up, rp) ==
  LET s1 == IF moved THEN addDrop(s, pos, MOVE_RADIUS, MOVE_STRENGTH, cv, dp)
            ELSE s
      s2 == updateWaterMap(s1, up)
  IN render(s2, cv, rp)

movedAfterLoop_keeps(s, moved, cv, dp) == moved

\* mouseMoved after loop(): cleared only if addDrop returned normally.
movedAfterLoop(s, moved, cv, dp) ==
  IF moved /\ ~addDrop(s, NoPos, MOVE_RADIUS, MOVE_STRENGTH, cv, dp).thrown
  THEN FALSE ELSE moved

Commit(s) ==
  /\ currentFBO' = s.currentFBO
  /\ nextFBO' = s.nextFBO
  /\ currentTexture' = s.currentTexture
  /\ nextTexture' = s.nextTexture
  /\ content' = s.content
  /\ passes' = s.passes
  /\ writes' = s.writes
  /\ swaps' = s.swaps
  /\ videoTexture' = s.videoTexture

\* --------------------------------------------------------------- initial
InitCommon ==
  /\ phase = "Unmounted"
  /\ renderProgram = NullH /\ updateProgram = NullH /\ dropProgram = NullH
  /\ fboA = NullH /\ fboB = NullH
  /\ currentFBO = NullH /\ nextFBO = NullH
  /\ currentTexture = NullH /\ nextTexture = NullH
  /\ animationFrameId = 0
  /\ lastMousePos = NoPos
  /\ mouseMoved = FALSE
  /\ canvas = [width |-> 0, height |-> 0, styleW |-> 0, styleH |-> 0]
  /\ listeners = {}
  /\ rafQueue = {}
  /\ cleanupLog = <<>>
  /\ content = [t \in Textures |-> <<>>]
  /\ passes = <<>>
  /\ arrivals = <<>>
  /\ drained = NoMoves
  /\ textureSize = [t \in Textures |-> <<0, 0>>]
  /\ ticks = 0
  /\ writes = 0
  /\ swaps = 0
  /\ lateEvents = FALSE
  /\ videoTexture = 0
  /\ handled = 0

Idle == [program |-> "none"]

Init == env = OkEnv /\ InitCommon /\ kernel = Idle

InitFault == env \in FaultEnvs \cup {OkEnv} /\ InitCommon /\ kernel = Idle

\* ---------------------------------------------------------------- actions
CompileFaults == {"compileVertex", "compileRender", "compileUpdate", "compileDrop"}

\* createProgram: null when the program fails to link.
createProgram(name, fault) == IF env = fault THEN NullH ELSE name

\* gl.createFramebuffer: null when the framebuffer cannot be allocated.
createFramebuffer(name, fault) == IF env = fault THEN NullH ELSE name

\* The useEffect body: initialization, listener registration, first tick.
Mount ==
  /\ phase = "Unmounted"
  /\ \E w \in Windows, ready \in BOOLEAN :
       IF env = "noContext" \/ env \in CompileFaults
       THEN \* getContext returned null (return), or createShader returned
            \* null and attachShader threw on it
            /\ phase' = "Failed"
            /\ UNCHANGED <<resvars, glvars, animationFrameId, canvas,
                           listeners, rafQueue, ticks, textureSize>>
       ELSE LET rp == createProgram("renderProgram", "linkRender")
                up == createProgram("updateProgram", "linkUpdate")
                dp == createProgram("dropProgram", "linkDrop")
                fa == createFramebuffer("fboA", "allocFboA")
                fb == createFramebuffer("fboB", "allocFboB")
                cv == resize(w.inner, w.ratio)
                s0 == [currentFBO |-> fa, nextFBO |-> fb,
                       currentTexture |-> "textureA",
                       nextTexture |-> "textureB",
                       content |-> [t \in Textures |-> <<>>],
                       passes |-> <<>>, writes |-> 0, swaps |-> 0,
                       thrown |-> FALSE, videoTexture |-> 0,
                       videoReady |-> ready, frame |-> 1]
                s == loopBody(s0, FALSE, NoPos, cv, dp, up, rp)
            IN /\ renderProgram' = rp /\ updateProgram' = up
               /\ dropProgram' = dp
               /\ fboA' = fa /\ fboB' = fb
               /\ canvas' = cv
               /\ textureSize' =
                    [t \in Textures |-> <<TEXTURE_WIDTH, TEXTURE_HEIGHT>>]
               /\ listeners' = {"resize", "mousemove", "mousedown"}
               /\ Commit(s)
               /\ ticks' = 1
               /\ IF s.thrown
                  THEN /\ phase' = "Failed"
                       /\ UNCHANGED <<animationFrameId, rafQueue>>
                  ELSE /\ phase' = "Running"
                       /\ animationFrameId' = 1
                       /\ rafQueue' = {1}
  /\ UNCHANGED <<handled, kernel, env, lastMousePos, mouseMoved, cleanupLog, arrivals,
                 drained, lateEvents>>

\* A scheduled animation-frame callback runs loop().
Loop ==
  /\ ticks < MaxTicks
  /\ \E id \in rafQueue, ready \in BOOLEAN :
       LET s0 == [Closure EXCEPT !.passes = <<>>, !.videoReady = ready]
           s == loopBody(s0, mouseMoved, lastMousePos, canvas,
                         dropProgram, updateProgram, renderProgram)
       IN /\ Commit(s)
          /\ mouseMoved' = movedAfterLoop(s0, mouseMoved, canvas, dropProgram)
          /\ IF s.thrown
             THEN /\ rafQueue' = rafQueue \ {id}
                  /\ UNCHANGED animationFrameId
             ELSE /\ animationFrameId' = animationFrameId + 1
                  /\ rafQueue' = (rafQueue \ {id}) \cup {animationFrameId + 1}
  /\ ticks' = ticks + 1
  /\ arrivals' = <<>>
  /\ drained' = MovesOf(arrivals)
  /\ UNCHANGED <<handled, kernel, env, phase, resvars, lastMousePos, canvas, listeners,
                 cleanupLog, textureSize, lateEvents>>

\* An event dispatched when its listener is no longer registered.
Late ==
  /\ phase = "Disposed"
  /\ lateEvents' = TRUE
  /\ UNCHANGED <<handled, kernel, env, phase, resvars, glvars, animationFrameId, lastMousePos,
                 mouseMoved, canvas, listeners, rafQueue, cleanupLog,
                 arrivals, drained, textureSize, ticks>>

onMouseMove_firstWins(pt) ==
  /\ Len(arrivals) < MaxEvents
  /\ handled < MaxHandled
  /\ handled' = handled + 1
  /\ lastMousePos' = IF mouseMoved THEN lastMousePos
                     ELSE PointerPos(pt, BoundingRect(canvas))
  /\ mouseMoved' = TRUE
  /\ arrivals' = Append(arrivals, [kind |-> "move", pt |-> pt,
                                   rect |-> BoundingRect(canvas)])
  /\ UNCHANGED <<kernel, env, phase, resvars, glvars, animationFrameId, canvas,
                 listeners, rafQueue, cleanupLog, drained, textureSize, ticks,
                 lateEvents>>

onMouseMove(pt) ==
  /\ Len(arrivals) < MaxEvents
  /\ handled < MaxHandled
  /\ handled' = handled + 1
  /\ lastMousePos' = PointerPos(pt, BoundingRect(canvas))
  /\ mouseMoved' = TRUE
  /\ arrivals' = Append(arrivals, [kind |-> "move", pt |-> pt,
                                   rect |-> BoundingRect(canvas)])
  /\ UNCHANGED <<kernel, env, phase, resvars, glvars, animationFrameId, canvas,
                 listeners, rafQueue, cleanupLog, drained, textureSize, ticks,
                 lateEvents>>

\* variants of onMouseDown: the press goes through the pending slot; the
\* press first injects the pending move; the press also records its position
onMouseDown_deferred(pt) ==
  /\ Len(arrivals) < MaxEvents
  /\ handled < MaxHandled
  /\ handled' = handled + 1
  /\ lastMousePos' = PointerPos(pt, BoundingRect(canvas))
  /\ mouseMoved' = TRUE
  /\ arrivals' = Append(arrivals, [kind |-> "down", pt |-> pt,
                                   rect |-> BoundingRect(canvas)])
  /\ UNCHANGED <<kernel, env, phase, resvars, glvars, animationFrameId, canvas,
                 listeners, rafQueue, cleanupLog, drained, textureSize, ticks,
                 lateEvents>>

onMouseDown_flushMove(pt) ==
  /\ Len(arrivals) < MaxEvents
  /\ handled < MaxHandled
  /\ handled' = handled + 1
  /\ LET s1 == IF mouseMoved
               THEN addDrop(Closure, lastMousePos, MOVE_RADIUS, MOVE_STRENGTH,
                            canvas, dropProgram)
               ELSE Closure
     IN Commit(addDrop(s1, PointerPos(pt, BoundingRect(canvas)),
                       DOWN_RADIUS, DOWN_STRENGTH, canvas, dropProgram))
  /\ mouseMoved' = FALSE
  /\ arrivals' = Append(arrivals, [kind |-> "down", pt |-> pt,
                                   rect |-> BoundingRect(canvas)])
  /\ UNCHANGED <<kernel, env, phase, resvars, animationFrameId, lastMousePos,
                 canvas, listeners, rafQueue, cleanupLog, drained,
                 textureSize, ticks, lateEvents>>

onMouseDown_setsSlot(pt) ==
  /\ Len(arrivals) < MaxEvents
  /\ handled < MaxHandled
  /\ handled' = handled + 1
  /\ Commit(addDrop(Closure, PointerPos(pt, BoundingRect(canvas)),
                    DOWN_RADIUS, DOWN_STRENGTH, canvas, dropProgram))
  /\ lastMousePos' = PointerPos(pt, BoundingRect(canvas))
  /\ arrivals' = Append(arrivals, [kind |-> "down", pt |-> pt,
                                   rect |-> BoundingRect(canvas)])
  /\ UNCHANGED <<kernel, env, phase, resvars, animationFrameId,
                 mouseMoved, canvas, listeners, rafQueue, cleanupLog, drained,
                 textureSize, ticks, lateEvents>>

onMouseDown(pt) ==
  /\ Len(arrivals) < MaxEvents
  /\ handled < MaxHandled
  /\ handled' = handled + 1
  /\ Commit(addDrop(Closure, PointerPos(pt, BoundingRect(canvas)),
                    DOWN_RADIUS, DOWN_STRENGTH, canvas, dropProgram))
  /\ arrivals' = Append(arrivals, [kind |-> "down", pt |-> pt,
                                   rect |-> BoundingRect(canvas)])
  /\ UNCHANGED <<kernel, env, phase, resvars, animationFrameId, lastMousePos,
                 mouseMoved, canvas, listeners, rafQueue, cleanupLog, drained,
                 textureSize, ticks, lateEvents>>

onResize(inner, ratio) ==
  /\ canvas' = resize(inner, ratio)
  /\ UNCHANGED <<handled, kernel, env, phase, resvars, glvars, animationFrameId, lastMousePos,
                 mouseMoved, listeners, rafQueue, cleanupLog, arrivals, drained,
                 textureSize, ticks, lateEvents>>

MouseMoveEvent ==
  \E pt \in ClientPoints :
    IF "mousemove" \in listeners THEN onMouseMove(pt) ELSE Late

MouseDownEvent ==
  \E pt \in ClientPoints :
    IF "mousedown" \in listeners THEN onMouseDown(pt) ELSE Late

ResizeEvent ==
  \E w \in Windows :
    IF "resize" \in listeners THEN onResize(w.inner, w.ratio) ELSE Late

\* The GPU objects the effect body creates.
Allocated ==
  {"vertexShader", "renderFragmentShader", "updateFragmentShader",
   "dropFragmentShader", "renderProgram", "updateProgram", "dropProgram",
   "positionBuffer", "videoTexture", "textureA", "textureB", "fboA", "fboB"}

\* The calls of the cleanup function, in program order.
Call(fn, arg) == [fn |-> fn, arg |-> arg]

cleanupCalls_noCancel ==
  <<Call("removeEventListener", "resize"),
    Call("removeEventListener", "mousemove"),
    Call("removeEventListener", "mousedown"),
    Call("deleteProgram", "renderProgram"),
    Call("deleteProgram", "updateProgram"),
    Call("deleteProgram", "dropProgram"),
    Call("deleteShader", "vertexShader"),
    Call("deleteBuffer", "positionBuffer"),
    Call("deleteTexture", "videoTexture"),
    Call("deleteTexture", "textureA"),
    Call("deleteTexture", "textureB"),
    Call("deleteFramebuffer", "fboA"),
    Call("deleteFramebuffer", "fboB")>>

cleanupCalls ==
  <<Call("cancelAnimationFrame", "animationFrameId"),
    Call("removeEventListener", "resize"),
    Call("removeEventListener", "mousemove"),
    Call("removeEventListener", "mousedown"),
    Call("deleteProgram", "renderProgram"),
    Call("deleteProgram", "updateProgram"),
    Call("deleteProgram", "dropProgram"),
    Call("deleteShader", "vertexShader"),
    Call("deleteBuffer", "positionBuffer"),
    Call("deleteTexture", "videoTexture"),
    Call("deleteTexture", "textureA"),
    Call("deleteTexture", "textureB"),
    Call("deleteFramebuffer", "fboA"),
    Call("deleteFramebuffer", "fboB")>>

CallsOf(fn) == {i \in 1..Len(cleanupCalls) : cleanupCalls[i].fn = fn}

\* The function returned by the effect; React runs it once, on unmount,
\* and only if the effect body returned normally.
Cleanup ==
  /\ phase = "Running"
  /\ phase' = "Disposed"
  /\ rafQueue' = IF CallsOf("cancelAnimationFrame") # {}
                 THEN rafQueue \ {animationFrameId} ELSE rafQueue
  /\ listeners' =
       listeners \ {cleanupCalls[i].arg : i \in CallsOf("removeEventListener")}
  /\ cleanupLog' = cleanupCalls
  /\ UNCHANGED <<handled, kernel, env, resvars, glvars, animationFrameId, lastMousePos,
                 mouseMoved, canvas, arrivals, drained, textureSize, ticks,
                 lateEvents>>

Next ==
  \/ Mount
  \/ Loop
  \/ MouseMoveEvent
  \/ MouseDownEvent
  \/ ResizeEvent
  \/ Cleanup

Spec == Init /\ [][Next]_vars

SpecFault == InitFault /\ [][Next]_vars

TypeOK ==
  /\ phase \in {"Unmounted", "Running", "Failed", "Disposed"}
  /\ ticks \in 0..MaxTicks
  /\ Len(arrivals) <= MaxEvents

\* ------------------------------------------------------ fragment programs
\* The driver variables, which a shader evaluation leaves alone.
drivervars == <<env, phase, renderProgram, updateProgram, dropProgram, fboA,
                fboB, currentFBO, nextFBO, currentTexture, nextTexture,
                animationFrameId, lastMousePos, mouseMoved, canvas, listeners,
                rafQueue, cleanupLog, content, passes, arrivals, drained,
                textureSize, ticks, writes, swaps, lateEvents, videoTexture,
                handled>>

Grid == (0..(GridN - 1)) \X (0..(GridN - 1))

Clamp(v, lo, hi) == IF v < lo THEN lo ELSE IF v > hi THEN hi ELSE v

\* texture2D on a texel centre of a CLAMP_TO_EDGE texture.
Texel(f, x, y) == f[<<Clamp(x, 0, GridN - 1), Clamp(y, 0, GridN - 1)>>]

\* Storing the channel value num/den (in units of 1/255) in an UNSIGNED_BYTE
\* channel: clamped to the representable range, then converted to one of
\* the two nearest integers, which one depending on the implementation.
Quantize(num, den, mode) ==
  IF num <= 0 THEN 0
  ELSE IF num >= ChannelMax * den THEN ChannelMax
  ELSE IF mode = "down" THEN num \div den
  ELSE IF mode = "up" THEN (num + den - 1) \div den
  ELSE (2 * num + den) \div (2 * den)

RoundingModes == {"down", "nearest", "up"}

\* UPDATE_FRAGMENT_SHADER_SOURCE at texel (x, y), as stored in the target.
UpdateFragment(f, x, y, mode) ==
  LET info == f[<<x, y>>]
      n == Texel(f, x, y - 1).r
      s == Texel(f, x, y + 1).r
      w == Texel(f, x - 1, y).r
      e == Texel(f, x + 1, y).r
  IN [r |-> Quantize(DAMPING * ((n + s + w + e) - 2 * info.g), 2000, mode),
      g |-> info.r, b |-> 0, a |-> ChannelMax]

\* One Wave Propagation pass over the whole grid.
UpdatePass(f, mode) == [p \in Grid |-> UpdateFragment(f, p[1], p[2], mode)]

ZeroTexel == [r |-> 0, g |-> 0, b |-> 0, a |-> 0]

\* Texel values the height field starts from.
WaveTexels ==
  {ZeroTexel,
   [r |-> 1, g |-> 1, b |-> 0, a |-> ChannelMax],
   [r |-> 0, g |-> 100, b |-> 0, a |-> ChannelMax],
   [r |-> 200, g |-> 0, b |-> 0, a |-> ChannelMax],
   [r |-> ChannelMax, g |-> ChannelMax, b |-> 0, a |-> ChannelMax]}

\* Height fields: a uniform field with one texel replaced.
WaveFields ==
  {[p \in Grid |-> IF p = q THEN t ELSE base] :
     q \in Grid, t \in WaveTexels,
     base \in {ZeroTexel, [r |-> 1, g |-> 1, b |-> 0, a |-> ChannelMax]}}

InitWave ==
  /\ env = OkEnv /\ InitCommon
  /\ kernel \in [program : {"update"}, field : WaveFields,
                  rounding : RoundingModes, target : {"textureB"}]

WaveStep ==
  /\ kernel.program = "update"
  /\ kernel' = [kernel EXCEPT
       !.field = UpdatePass(kernel.field, kernel.rounding),
       \* the pass writes the other texture of the pair, then they swap
       !.target = IF kernel.target = "textureB" THEN "textureA"
                  ELSE "textureB"]
  /\ UNCHANGED drivervars

NextWave == WaveStep

SpecWave == InitWave /\ [][NextWave]_vars /\ WF_vars(WaveStep)

\* Integer square root of n, for n < (hi + 1)^2.
ISqrt(n, hi) == CHOOSE k \in 0..hi : k * k <= n /\ n < (k + 1) * (k + 1)

\* cos(3.14159 * a / b) for 0 <= a <= b as a fraction <<num, den>>:
\* (1 - 4 t^2) / (1 + t^2) on the first quarter turn (exact at t = 0, 1/3 and
\* 1/2, within 0.002 between), mirrored on the second.
CosPi(a, b) ==
  IF 2 * a <= b
    THEN <<b * b - 4 * a * a, b * b + a * a>>
    ELSE <<4 * (b - a) * (b - a) - b * b, b * b + (b - a) * (b - a)>>

\* Lines 108-118 of the drop program for the texel tx at offset
\* adjusted_uv = <<ax, ay>> / h from the centre, as stored in the target.
\* Offsets, radius and strength in thousandths.
DropAt(tx, ax, ay, h, radius, strength, mode) ==
  LET d2 == ax * ax + ay * ay
  IN IF d2 < radius * radius * h * h
       THEN LET dist == ISqrt(d2 \div (h * h), radius)
                c    == CosPi(radius - dist, radius)
                \* drop * u_strength = bump / den channel steps
                bump == (c[1] + c[2]) * strength * (ChannelMax \div 5)
                den  == c[2] * 400
            IN [r |-> Quantize(tx.r * den + bump, den, mode),
                g |-> tx.g, b |-> tx.b, a |-> tx.a]
       ELSE tx

DropFragment_noAspect(tx, uv, center, radius, strength, asp, mode) ==
  DropAt(tx, uv[1] - center[1], uv[2] - center[2], 1, radius, strength, mode)

\* DROP_FRAGMENT_SHADER_SOURCE at v_uv = uv for the texel tx read there;
\* u_aspect = asp[1] / asp[2], the canvas width over its height.
DropFragment(tx, uv, center, radius, strength, asp, mode) ==
  DropAt(tx, (uv[1] - center[1]) * asp[1], (uv[2] - center[2]) * asp[2],
         asp[2], radius, strength, mode)

\* Points (in thousandths of the texture) the drop program is evaluated at.
SamplePoints ==
  {<<500, 500>>, <<500, 510>>, <<520, 500>>, <<530, 500>>, <<530, 540>>,
   <<550, 500>>, <<500, 450>>, <<500, 600>>, <<0, 0>>}

\* The two impulses the component injects.
Impulses ==
  {[radius |-> MOVE_RADIUS, strength |-> MOVE_STRENGTH],
   [radius |-> DOWN_RADIUS, strength |-> DOWN_STRENGTH]}

DropCenters == {<<500, 500>>, <<0, 0>>}

Aspects == {<<2, 1>>, <<1, 1>>, <<1, 2>>}

\* Height fields the drop is injected into, each uniform.
DropFields ==
  {[p \in SamplePoints |-> tx] :
     tx \in {ZeroTexel,
             [r |-> 100, g |-> 50, b |-> 0, a |-> ChannelMax],
             [r |-> 250, g |-> 7, b |-> 0, a |-> ChannelMax]}}

InitDrop ==
  /\ env = OkEnv /\ InitCommon
  /\ \E c \in DropCenters, i \in Impulses, asp \in Aspects,
        f \in DropFields, m \in RoundingModes :
       kernel = [program |-> "drop", center |-> c, radius |-> i.radius,
                 strength |-> i.strength, aspect |-> asp, rounding |-> m,
                 input |-> f, output |-> f, done |-> FALSE]

\* One Impulse Injection pass over the sample points.
DropStep ==
  /\ kernel.program = "drop"
  /\ ~kernel.done
  /\ kernel' = [kernel EXCEPT
       !.output = [p \in SamplePoints |->
                     DropFragment(kernel.input[p], p, kernel.center,
                                  kernel.radius, kernel.strength,
                                  kernel.aspect, kernel.rounding)],
       !.done = TRUE]
  /\ UNCHANGED drivervars

NextDrop == DropStep

SpecDrop == InitDrop /\ [][NextDrop]_vars

\* Lines 27-36 of the render program: the scale of each axis as a fraction
\* <<num, den>>, for u_resolution = res and u_video_resolution = vres.
RenderScale_swapped(res, vres) ==
  IF res[1] * vres[2] > vres[1] * res[2]
    THEN [x |-> <<1, 1>>, y |-> <<vres[1] * res[2], vres[2] * res[1]>>]
    ELSE [x |-> <<res[1] * vres[2], res[2] * vres[1]>>, y |-> <<1, 1>>]

RenderScale(res, vres) ==
  IF res[1] * vres[2] > vres[1] * res[2]
    THEN [x |-> <<res[1] * vres[2], res[2] * vres[1]>>, y |-> <<1, 1>>]
    ELSE [x |-> <<1, 1>>, y |-> <<vres[1] * res[2], vres[2] * res[1]>>]

\* Lines 38-42 for one axis: 1 - ((u / 10 - 0.5) * s + 0.5) as a fraction,
\* u in tenths and s = <<num, den>>.
VideoUv(u, s) == <<5 * s[2] - (u - 5) * s[1], 10 * s[2]>>

\* Lines 44-55: the displacement, in channel steps, from the four samples
\* h = [l, r, d, u] of the water map around v_uv.
Displacement(h) == <<h.r - h.l, -(h.u - h.d)>>

IsOutside(vx, vy) ==
  vx[1] < 0 \/ vx[1] > vx[2] \/ vy[1] < 0 \/ vy[1] > vy[2]

\* clamp(v + disp * strength, 0.0, 1.0) for one axis, as a fraction over
\* v[2] * 25500 (disp in 1/255, strength in hundredths).
Displaced(v, disp, strength) ==
  <<Clamp(v[1] * 25500 + disp * strength * v[2], 0, v[2] * 25500),
    v[2] * 25500>>

\* Lines 59-66: the coordinate at which u_texture is sampled.
RenderFragment_alwaysDisplace(uv, res, vres, h, strength) ==
  LET s  == RenderScale(res, vres)
      vx == VideoUv(uv[1], s.x)
      vy == VideoUv(uv[2], s.y)
  IN [x |-> Displaced(vx, Displacement(h)[1], strength),
      y |-> Displaced(vy, Displacement(h)[2], strength)]

RenderFragment(uv, res, vres, h, strength) ==
  LET s  == RenderScale(res, vres)
      vx == VideoUv(uv[1], s.x)
      vy == VideoUv(uv[2], s.y)
  IN IF IsOutside(vx, vy)
       THEN [x |-> Displaced(vx, 0, strength), y |-> Displaced(vy, 0, strength)]
       ELSE [x |-> Displaced(vx, Displacement(h)[1], strength),
             y |-> Displaced(vy, Displacement(h)[2], strength)]

\* Output and video sizes.
Resolutions == {<<2, 1>>, <<1, 1>>, <<1, 2>>}
VideoResolutions == {<<4, 3>>, <<1, 1>>, <<3, 4>>}

\* Output coordinates v_uv, in tenths.
RenderPoints == {0, 5, 10} \X {0, 5, 10}

\* Samples of the height field to the left, right, below and above v_uv.
HeightSamples ==
  {[l |-> 0, r |-> 0, d |-> 0, u |-> 0],
   [l |-> 0, r |-> ChannelMax, d |-> 0, u |-> 0],
   [l |-> 10, r |-> 0, d |-> 0, u |-> 30]}

RippleStrengths == {RIPPLE_STRENGTH, 2 * RIPPLE_STRENGTH}

InitRender ==
  /\ env = OkEnv /\ InitCommon
  /\ \E uv \in RenderPoints, res \in Resolutions, vres \in VideoResolutions,
        h \in HeightSamples, rs \in RippleStrengths :
       kernel = [program |-> "render", uv |-> uv, resolution |-> res,
                 videoResolution |-> vres, heights |-> h, strength |-> rs,
                 scale |-> [x |-> <<1, 1>>, y |-> <<1, 1>>],
                 sample |-> [x |-> <<0, 1>>, y |-> <<0, 1>>],
                 done |-> FALSE]

\* The render program at one output coordinate.
RenderStep ==
  /\ kernel.program = "render"
  /\ ~kernel.done
  /\ kernel' = [kernel EXCEPT
       !.scale = RenderScale(kernel.resolution, kernel.videoResolution),
       !.sample = RenderFragment(kernel.uv, kernel.resolution,
                                 kernel.videoResolution, kernel.heights,
                                 kernel.strength),
       !.done = TRUE]
  /\ UNCHANGED drivervars

NextRender == RenderStep

SpecRender == InitRender /\ [][NextRender]_vars

\* ------------------------------------------------- vocabulary of the claims
IsWrite(p) == p.kind \in {"drop", "update"}

\* The target of the last write pass among the first i passes of ps.
LastWritten(ps, i) ==
  LET j == CHOOSE j \in 1..i :
             IsWrite(ps[j]) /\ \A k \in (j + 1)..i : ~IsWrite(ps[k])
  IN ps[j].writes

\* The position of a pointer event in the unit square, y pointing up.
UnitPos(e) ==
  [x |-> <<e.pt[1], e.rect[1]>>, y |-> <<e.rect[2] - e.pt[2], e.rect[2]>>]

\* Number of passes the last tick issued before its Wave Propagation pass.
Injected == IF passes # <<>> /\ passes[1].kind = "drop" THEN 1 ELSE 0

\* C1 Buffer non-aliasing: every write pass issued (Impulse Injection and
\* Wave Propagation) drew into a texture other than the one it read, and the
\* texture attached to nextFBO differs from currentTexture, so the same holds
\* of the next write pass, whatever ticks and pointer events came before.
C1_BufferNonAliasing ==
  /\ \A i \in 1..Len(passes) :
       IsWrite(passes[i]) => passes[i].writes # passes[i].reads
  /\ ticks >= 1 => Attachment(nextFBO) # currentTexture

C1_Witness ==
  /\ ticks >= 2
  /\ \E i, j \in 1..Len(passes) :
       /\ i < j
       /\ passes[i].kind = "update"
       /\ passes[j].kind = "drop"
       /\ passes[j].writes = passes[i].reads
  /\ passes[1].kind = "drop"

\* C2 Per-tick order: the passes of a tick are, in order, at most one
\* injection with the move parameters, one Wave Propagation pass followed by
\* a swap (Compositing reads the texture it wrote), and one Compositing pass
\* followed by no swap (whatever comes next reads the same texture); every
\* pass issued after that until the next tick is an injection.
C2_TickOrder ==
  ticks >= 1 =>
    LET k == Injected
    IN /\ Len(passes) >= k + 2
       /\ k = 1 => /\ passes[1].radius = MOVE_RADIUS
                   /\ passes[1].strength = MOVE_STRENGTH
       /\ passes[k + 1].kind = "update"
       /\ passes[k + 2].kind = "render"
       /\ passes[k + 2].reads = passes[k + 1].writes
       /\ \A i \in (k + 3)..Len(passes) : passes[i].kind = "drop"
       /\ IF Len(passes) > k + 2
          THEN passes[k + 3].reads = passes[k + 2].reads
          ELSE currentTexture = passes[k + 2].reads

C2_Witness ==
  /\ ticks >= 2
  /\ Len(passes) = 3
  /\ passes[1].kind = "drop"
  /\ passes[2].kind = "update"
  /\ passes[3].kind = "render"

\* C3 Read-after-write chain: every pass reads the texture the most recent
\* write pass drew into, the next pass will too, and the current texture
\* holds the results of all write passes so far, none lost.
C3_ReadAfterWrite ==
  ticks >= 1 =>
    /\ \A i \in 2..Len(passes) : passes[i].reads = LastWritten(passes, i - 1)
    /\ currentTexture = LastWritten(passes, Len(passes))
    /\ content[currentTexture] = [n \in 1..writes |-> n]

C3_Witness ==
  /\ ticks >= 2
  /\ Len(passes) >= 4
  /\ passes[1].kind = "drop"
  /\ passes[4].kind = "drop"
  /\ content[currentTexture] = [n \in 1..writes |-> n]
  /\ writes >= 5

\* C4 Move coalescing: when one or more move events were handled between two
\* ticks, the later tick injects exactly one impulse, at the position of the
\* last of them, with radius 0.04 and strength 0.1.
C4_MoveCoalescing ==
  (ticks >= 2 /\ drained.moves >= 1) =>
    /\ passes[1].kind = "drop"
    /\ passes[1].center = UnitPos(drained.last)
    /\ passes[1].radius = MOVE_RADIUS
    /\ passes[1].strength = MOVE_STRENGTH
    /\ passes[2].kind = "update"

C4_Witness ==
  /\ ticks >= 2
  /\ drained.moves >= 2
  /\ UnitPos(drained.first) # UnitPos(drained.last)
  /\ passes[1].kind = "drop"
  /\ passes[1].center = UnitPos(drained.last)

\* C5 No activity after disposal: once the cleanup has run no tick executes
\* and no pass is issued, whatever events are dispatched; the cleanup leaves
\* no callback scheduled and no listener registered, and it cancels the
\* scheduled callback before it deletes any GPU resource.
Deletes == {"deleteProgram", "deleteShader", "deleteBuffer", "deleteTexture",
            "deleteFramebuffer"}

C5_NoActivityAfterDisposal ==
  [][/\ phase = "Disposed" =>
          /\ ticks' = ticks
          /\ passes' = passes
          /\ writes' = writes
          /\ content' = content
     /\ phase' = "Disposed" =>
          /\ rafQueue' = {}
          /\ listeners' = {}
          /\ \E c \in 1..Len(cleanupLog') :
               /\ cleanupLog'[c].fn = "cancelAnimationFrame"
               /\ \A d \in 1..Len(cleanupLog') :
                    cleanupLog'[d].fn \in Deletes => c < d]_vars

C5_Witness ==
  /\ phase = "Disposed"
  /\ lateEvents
  /\ animationFrameId >= 1
  /\ ticks < MaxTicks
  /\ rafQueue = {}

\* C6 Fatal initialization: when the context is unavailable, a shader fails
\* to compile, a program fails to link or a framebuffer cannot be allocated,
\* no tick is executed and no pass is issued.
C6_FatalInitialization ==
  env # OkEnv => (ticks = 0 /\ passes = <<>>)

IsDown(e) == e.kind = "down"
Downs(evs) == SelectSeq(evs, IsDown)
DropIdx(ps) == {i \in 1..Len(ps) : ps[i].kind = "drop"}

\* The passes issued since the last tick's Compositing pass.
SinceTick == SubSeq(passes, Injected + 3, Len(passes))

\* C7 as stated: between the start of one tick and the start of the next,
\* addDrop runs at most once.
C7_AtMostOneInjection == Cardinality(DropIdx(passes)) <= 1

\* C7 amended: a tick itself runs addDrop at most once, and only when a move
\* event was handled since the previous tick; between the start of one tick
\* and the start of the next addDrop runs that once or not at all, plus once
\* for every down event handled in the interval.
C7_InjectionsPerFrame ==
  ticks >= 1 =>
    /\ Cardinality(DropIdx(passes)) = Injected + Len(Downs(arrivals))
    /\ DropIdx(SubSeq(passes, 1, Injected + 2)) \subseteq {1}
    /\ Injected = 1 => drained.moves >= 1

C7_Witness ==
  /\ ticks >= 2
  /\ Injected = 1
  /\ Len(Downs(arrivals)) = 2
  /\ Cardinality(DropIdx(passes)) = 3

\* C8 as stated: when the last move event of an interval was handled before
\* a down event of the same interval, the move impulse has been injected
\* before the down impulse.
C8_ArrivalOrder ==
  \A i, j \in 1..Len(arrivals) :
    (/\ i < j
     /\ arrivals[i].kind = "move"
     /\ arrivals[j].kind = "down"
     /\ \A k \in (i + 1)..Len(arrivals) : arrivals[k].kind # "move")
    => \E a, b \in 1..Len(passes) :
         /\ a < b
         /\ passes[a].kind = "drop"
         /\ passes[a].radius = MOVE_RADIUS
         /\ passes[a].center = UnitPos(arrivals[i])
         /\ passes[b].kind = "drop"
         /\ passes[b].radius = DOWN_RADIUS
         /\ passes[b].center = UnitPos(arrivals[j])

\* C8 amended: the down impulses of an interval are injected in the order
\* their events were handled, each followed by its own swap, and no move
\* impulse is injected between ticks; the coalesced move impulse is injected
\* first thing in the next tick, after every impulse injected before that
\* tick, also when its move event was handled before a down event.
C8_ImpulseOrder ==
  [][/\ ticks' >= 1 =>
          LET ds == Downs(arrivals')
              ps == SubSeq(passes', Injected' + 3, Len(passes'))
          IN /\ Len(ps) = Len(ds)
             /\ \A i \in 1..Len(ps) :
                  /\ ps[i].radius = DOWN_RADIUS
                  /\ ps[i].center = UnitPos(ds[i])
                  /\ ps[i].writes # ps[i].reads
                  /\ i > 1 => /\ ps[i].reads = ps[i - 1].writes
                              /\ ps[i].serial = ps[i - 1].serial + 1
     /\ (ticks' = ticks + 1 /\ mouseMoved) =>
          /\ passes'[1].kind = "drop"
          /\ passes'[1].center = lastMousePos
          /\ passes'[1].serial = writes + 1]_vars

C8_Witness ==
  /\ Len(arrivals) = 2
  /\ arrivals[1].kind = "move"
  /\ arrivals[2].kind = "down"
  /\ mouseMoved
  /\ lastMousePos = UnitPos(arrivals[1])
  /\ passes[Len(passes)].kind = "drop"
  /\ passes[Len(passes)].center = UnitPos(arrivals[2])

\* C9 Down events are immediate and not coalesced: the step that handles a
\* down event issues exactly one injection, at the event's position with
\* radius 0.05 and strength 1.0, before any further tick, and leaves
\* mouseMoved and lastMousePos as they were; k down events handled since the
\* last tick have caused k injections.
C9_DownImmediate ==
  [][(/\ Len(arrivals') = Len(arrivals) + 1
      /\ arrivals'[Len(arrivals')].kind = "down")
     => LET e == arrivals'[Len(arrivals')]
            p == passes'[Len(passes')]
        IN /\ Len(passes') = Len(passes) + 1
           /\ SubSeq(passes', 1, Len(passes)) = passes
           /\ p.kind = "drop"
           /\ p.center = UnitPos(e)
           /\ p.radius = DOWN_RADIUS
           /\ p.strength = DOWN_STRENGTH
           /\ ticks' = ticks
           /\ mouseMoved' = mouseMoved
           /\ lastMousePos' = lastMousePos
           /\ Len(SubSeq(passes', Injected' + 3, Len(passes')))
                = Len(Downs(arrivals'))]_vars

C9_Witness ==
  /\ Len(arrivals) = 2
  /\ arrivals[1].kind = "down"
  /\ arrivals[2].kind = "down"
  /\ arrivals[1].pt # arrivals[2].pt
  /\ Len(SinceTick) = 2
  /\ SinceTick[1].center = UnitPos(arrivals[1])
  /\ SinceTick[2].center = UnitPos(arrivals[2])
  /\ SinceTick[2].strength = DOWN_STRENGTH

\* C10 Resize frame condition: a resize changes the canvas size and nothing
\* else: not the contents or the size of the height-field textures, not the
\* current/next labels, not the pending pointer slot; and every write pass,
\* before or after a resize, draws with a 512x512 viewport.
C10_ResizeFrame ==
  [][/\ (canvas' # canvas /\ ticks >= 1) =>
          UNCHANGED <<content, textureSize, currentFBO, nextFBO,
                      currentTexture, nextTexture, lastMousePos, mouseMoved,
                      passes, writes, swaps, arrivals, ticks>>
     /\ \A i \in 1..Len(passes') :
          IsWrite(passes'[i]) =>
            passes'[i].vp = <<TEXTURE_WIDTH, TEXTURE_HEIGHT>>
     /\ ticks' >= 1 =>
          \A t \in Textures :
            textureSize'[t] = <<TEXTURE_WIDTH, TEXTURE_HEIGHT>>]_vars

C10_Witness ==
  /\ Len(SinceTick) >= 1
  /\ passes[Injected + 2].vp # SinceTick[1].aspect
  /\ SinceTick[1].vp = <<TEXTURE_WIDTH, TEXTURE_HEIGHT>>
  /\ <<canvas.width, canvas.height>> = SinceTick[1].aspect
  /\ content[currentTexture] = [n \in 1..writes |-> n]

\* The Compositing pass of the last tick.
TickRender(ps) == ps[(IF ps[1].kind = "drop" THEN 1 ELSE 0) + 2]

\* C11 Frame not ready is transient: a tick polls readiness once; when the
\* source is ready the video texture takes the tick's frame, and when it is
\* not the texture keeps the contents it had after the previous tick; either
\* way the tick issues its Wave Propagation and Compositing passes, enters no
\* error state and schedules the next tick; nothing but a tick changes the
\* video texture.
C11_FrameNotReady ==
  [][/\ ticks' = ticks + 1 =>
          LET r == TickRender(passes')
          IN /\ r.kind = "render"
             /\ Cardinality({i \in 1..Len(passes') :
                               passes'[i].kind = "render"}) = 1
             /\ \E i \in 1..Len(passes') : passes'[i].kind = "update"
             /\ r.ready => videoTexture' = ticks'
             /\ ~r.ready => videoTexture' = videoTexture
             /\ r.video = videoTexture'
             /\ phase' = "Running"
             /\ animationFrameId' \in rafQueue'
     /\ ticks' = ticks => videoTexture' = videoTexture]_vars

C11_Witness ==
  /\ ticks = 2
  /\ phase = "Running"
  /\ ~TickRender(passes).ready
  /\ TickRender(passes).video = 1
  /\ videoTexture = 1
  /\ rafQueue # {}

\* The objects the cleanup function has deleted.
Released == {cleanupLog[i].arg :
               i \in {j \in 1..Len(cleanupLog) : cleanupLog[j].fn \in Deletes}}

\* C18 Complete release on teardown: after the cleanup has run, every GPU
\* object the initialization created has been deleted and no listener
\* registered at initialization is left.
C18_CompleteRelease ==
  phase = "Disposed" => (Allocated \subseteq Released /\ listeners = {})

\* C19 Label pairing: the current and next labels denote the two distinct
\* textures and the two distinct framebuffers, each framebuffer label holds
\* the framebuffer its texture label is attached to, and there have been as
\* many swaps as write passes.
C19_LabelPairing ==
  ticks >= 1 =>
    /\ {currentTexture, nextTexture} = Textures
    /\ {currentFBO, nextFBO} = {fboA, fboB}
    /\ currentFBO # nextFBO
    /\ Attachment(currentFBO) = currentTexture
    /\ Attachment(nextFBO) = nextTexture
    /\ swaps = writes

C19_Witness ==
  /\ swaps = 4
  /\ currentFBO = "fboA"
  /\ currentTexture = "textureA"
  /\ Injected = 1
  /\ Len(SinceTick) = 1
  /\ canvas.height # TickRender(passes).vp[2]

HasMove(evs) == \E i \in 1..Len(evs) : evs[i].kind = "move"

\* C20 Pending move slot consumed exactly once: the last tick injected a
\* move impulse exactly when a move event was handled in the interval before
\* it, and then at that interval's last position; the pending flag is set
\* exactly when a move event was handled since the last tick; and when the
\* last tick found no move and no down event has been handled since, the
\* only write pass since the start of that tick is its Wave Propagation.
C20_PendingSlot ==
  ticks >= 1 =>
    /\ Injected = 1 <=> drained.moves >= 1
    /\ Injected = 1 => passes[1].center = UnitPos(drained.last)
    /\ mouseMoved <=> HasMove(arrivals)
    /\ (Injected = 0 /\ Downs(arrivals) = <<>>) =>
         /\ Len(passes) = 2
         /\ passes[1].kind = "update"
         /\ passes[1].serial = writes

C20_Witness ==
  /\ ticks = 3
  /\ drained.moves = 0
  /\ Injected = 0
  /\ ~mouseMoved
  /\ writes = 4
  /\ Len(passes) = 2

\* Reference for the Wave Propagation rule: the neighbour of (x, y) in
\* direction (dx, dy), taken at the nearest edge texel when it falls outside.
RefNeighbour(f, x, y, dx, dy) ==
  LET nx == IF x + dx < 0 THEN 0
            ELSE IF x + dx > GridN - 1 THEN GridN - 1 ELSE x + dx
      ny == IF y + dy < 0 THEN 0
            ELSE IF y + dy > GridN - 1 THEN GridN - 1 ELSE y + dy
  IN f[<<nx, ny>>].r

\* 2000 * damping * (0.5 * (north + south + east + west) - velocity), with
\* damping in thousandths.
RefHeight2000(f, x, y) ==
  DAMPING * (RefNeighbour(f, x, y, 0, -1) + RefNeighbour(f, x, y, 0, 1)
             + RefNeighbour(f, x, y, 1, 0) + RefNeighbour(f, x, y, -1, 0)
             - 2 * f[<<x, y>>].g)

\* C12: one Wave Propagation pass leaves in every texel
\* new_height = damping * (0.5 * (north + south + east + west) - velocity),
\* to within one step of the 8-bit channel, and new_velocity = the height
\* before the pass, the neighbours read with edge-clamped addressing.
C12_WaveRule ==
  [][WaveStep =>
       \A p \in Grid :
         LET d == 2000 * kernel'.field[p].r
                  - RefHeight2000(kernel.field, p[1], p[2])
         IN /\ d < 2000 /\ d > -2000
            /\ kernel'.field[p].g = kernel.field[p].r]_vars

AllZero(f) == \A p \in Grid : f[p].r = 0

\* C13: with no further impulses, repeated Wave Propagation passes drive the
\* stored height channel of every texel to zero, where it stays.
C13_EnergyDecay == <>[]AllZero(kernel.field)

\* Whether the point uv is at distance >= radius from the centre of the
\* impulse of the kernel, the x offset multiplied by width / height.
Outside(uv) ==
  LET w == kernel.aspect[1]
      h == kernel.aspect[2]
      ox == (uv[1] - kernel.center[1]) * w
      oy == (uv[2] - kernel.center[2]) * h
  IN ox * ox + oy * oy >= kernel.radius * kernel.radius * h * h

\* C14: an impulse leaves every texel at distance >= r (x offset scaled by
\* viewportWidth / viewportHeight) unchanged in every channel, and changes
\* at most the height channel of the texels inside the radius.
C14_ImpulseLocality ==
  (kernel.program = "drop" /\ kernel.done) =>
    \A p \in SamplePoints :
      /\ Outside(p) => kernel.output[p] = kernel.input[p]
      /\ kernel.output[p].g = kernel.input[p].g
      /\ kernel.output[p].b = kernel.input[p].b
      /\ kernel.output[p].a = kernel.input[p].a

C14_Witness ==
  /\ kernel.program = "drop" /\ kernel.done
  /\ kernel.aspect = <<2, 1>> /\ kernel.center = <<500, 500>>
  /\ kernel.radius = DOWN_RADIUS
  /\ kernel.input[<<500, 500>>].g = 50
  /\ Outside(<<530, 500>>) /\ ~Outside(<<520, 500>>)
  /\ kernel.output[<<520, 500>>].r > kernel.input[<<520, 500>>].r
  /\ kernel.output[<<530, 500>>] = kernel.input[<<530, 500>>]

\* C15: on a flat field a press at (0.5, 0.5) with radius 0.05 and strength
\* 1.0 leaves height about 1.0 at the centre, about 0.0 at distance 0.05 and
\* 0.0 at distance 0.1 ("about": within 5% of the channel range).
C15_ImpulseProfile ==
  (/\ kernel.program = "drop" /\ kernel.done
   /\ kernel.center = <<500, 500>>
   /\ kernel.radius = DOWN_RADIUS /\ kernel.strength = DOWN_STRENGTH
   /\ \A p \in SamplePoints : kernel.input[p] = ZeroTexel)
  => /\ 20 * kernel.output[<<500, 500>>].r >= 19 * ChannelMax
     /\ 20 * kernel.output[<<500, 450>>].r <= ChannelMax
     /\ kernel.output[<<500, 600>>].r = 0

RECURSIVE GCD(_, _)
GCD(m, n) == IF n = 0 THEN m ELSE GCD(n, m % n)

\* A fraction >= 0 in lowest terms.
Lowest(a) == LET g == GCD(a[1], a[2]) IN <<a[1] \div g, a[2] \div g>>

\* Comparison of fractions with positive denominators.
REq(a, b) == Lowest(a) = Lowest(b)
RLt(a, b) == a[1] * b[2] < b[1] * a[2]

CanvasAspect == <<kernel.resolution[1], kernel.resolution[2]>>
VideoAspect == <<kernel.videoResolution[1], kernel.videoResolution[2]>>

\* a / b for fractions a and b
RDiv(a, b) == <<a[1] * b[2], a[2] * b[1]>>

\* C16: Compositing scales x by canvasAspect / videoAspect when
\* canvasAspect > videoAspect and otherwise y by videoAspect / canvasAspect,
\* the other axis keeping factor 1; no factor is below 1 and the two axes
\* are never both scaled.
C16_CoverCrop ==
  (kernel.program = "render" /\ kernel.done) =>
    LET s == kernel.scale
    IN /\ RLt(VideoAspect, CanvasAspect) =>
            (REq(s.x, RDiv(CanvasAspect, VideoAspect)) /\ REq(s.y, <<1, 1>>))
       /\ ~RLt(VideoAspect, CanvasAspect) =>
            (REq(s.y, RDiv(VideoAspect, CanvasAspect)) /\ REq(s.x, <<1, 1>>))
       /\ ~RLt(s.x, <<1, 1>>) /\ ~RLt(s.y, <<1, 1>>)
       /\ REq(s.x, <<1, 1>>) \/ REq(s.y, <<1, 1>>)

C16_Witness ==
  /\ kernel.program = "render" /\ kernel.done
  /\ kernel.resolution = <<2, 1>> /\ kernel.videoResolution = <<4, 3>>
  /\ REq(kernel.scale.x, <<3, 2>>)
  /\ REq(kernel.scale.y, <<1, 1>>)

\* The video coordinate of the output coordinate of the kernel.
VideoCoord ==
  LET s == RenderScale(kernel.resolution, kernel.videoResolution)
  IN [x |-> VideoUv(kernel.uv[1], s.x), y |-> VideoUv(kernel.uv[2], s.y)]

RClamp01(a) == IF a[1] < 0 THEN <<0, 1>> ELSE IF a[1] > a[2] THEN <<1, 1>> ELSE a

\* a + n / d for a fraction a
RPlus(a, n, d) == <<a[1] * d + n * a[2], a[2] * d>>

\* C17: where the video coordinate is outside the unit square the video is
\* sampled at the clamped video coordinate, whatever the height field and
\* rippleStrength; inside, at videoCoord + displacement * rippleStrength
\* clamped to the unit square.
C17_EdgeArtifact ==
  (kernel.program = "render" /\ kernel.done) =>
    LET v == VideoCoord
        d == Displacement(kernel.heights)
    IN IF IsOutside(v.x, v.y)
         THEN /\ REq(kernel.sample.x, RClamp01(v.x))
              /\ REq(kernel.sample.y, RClamp01(v.y))
              /\ \A h \in HeightSamples, rs \in RippleStrengths :
                   RenderFragment(kernel.uv, kernel.resolution,
                                  kernel.videoResolution, h, rs)
                     = kernel.sample
         ELSE /\ REq(kernel.sample.x,
                     RClamp01(RPlus(v.x, d[1] * kernel.strength, 25500)))
              /\ REq(kernel.sample.y,
                     RClamp01(RPlus(v.y, d[2] * kernel.strength, 25500)))

C17_Witness ==
  /\ kernel.program = "render" /\ kernel.done
  /\ IsOutside(VideoCoord.x, VideoCoord.y)
  /\ ~RLt(VideoCoord.y, <<0, 1>>) /\ ~RLt(<<1, 1>>, VideoCoord.y)
  /\ Displacement(kernel.heights)[2] # 0
  /\ REq(kernel.sample.y, VideoCoord.y)

====
